---- MODULE Spec2Model ----
(***************************************************************************)
(* State-machine model of S3_copy/s3_bulk_transfer.py: the host program    *)
(* main(), S3BulkTransfer.run_transfer with its thread pool, the per-object *)
(* transfer_file (skip check, simple copy, multipart copy), the progress   *)
(* ledger (completed_transfers and transfer_progress.json) and the run     *)
(* statistics.                                                             *)
(*                                                                         *)
(* Strings are sequences of one-character strings.  Python's None / an     *)
(* unbound local is the empty tuple <<>>, a bound value v is <<v>>.        *)
(* Every storage call can return, raise botocore's ClientError, or raise   *)
(* another exception (connection and streaming errors are not ClientError).*)
(* Statements of different threads interleave between shared reads and     *)
(* writes: "x += 1" on a shared counter is a read step and a write step.   *)
(***************************************************************************)
EXTENDS Integers, Sequences, FiniteSets, TLC

\* ------------------------------------------------------------- bounds
\* Longest listing the source bucket returns.
MaxObjects == 2

\* ---------------------------------------------------- program constants
MiB == 1024 * 1024
\* transfer_file: "if size > 100 * 1024 * 1024"
MULTIPART_THRESHOLD == 100 * MiB
\* --max-workers: threads of the ThreadPoolExecutor
max_workers == 2
\* --chunk-size: bytes per multipart part
chunk_size == 40 * MiB
\* --source-prefix and --dest-prefix as given on the command line
source_prefix_arg == <<"d", "/">>
destination_prefix_arg == <<"b">>

Workers == 1..max_workers

\* ------------------------------------------------------------ strings
RECURSIVE rstrip(_, _)
rstrip(s, c) ==
    IF s # <<>> /\ s[Len(s)] = c THEN rstrip(SubSeq(s, 1, Len(s) - 1), c) ELSE s

RECURSIVE lstrip(_, _)
lstrip(s, c) ==
    IF s # <<>> /\ s[1] = c THEN lstrip(Tail(s), c) ELSE s

\* __init__: self.source_prefix = source_prefix.rstrip('/')
source_prefix == rstrip(source_prefix_arg, "/")
destination_prefix == rstrip(destination_prefix_arg, "/")

\* A get_destination_key that keeps the separators the prefix leaves at the
\* front of the relative key.
destination_key_unstripped(self_source_prefix, self_destination_prefix, source_key) ==
    LET relative_key ==
            SubSeq(source_key, Len(self_source_prefix) + 1, Len(source_key))
    IN  IF self_destination_prefix # <<>>
        THEN self_destination_prefix \o <<"/">> \o relative_key
        ELSE relative_key

\* get_destination_key, lines 218-229, for an object whose source_prefix
\* and destination_prefix attributes are the first two arguments
destination_key(self_source_prefix, self_destination_prefix, source_key) ==
    LET relative_key ==
            IF self_source_prefix # <<>>
            THEN lstrip(SubSeq(source_key, Len(self_source_prefix) + 1,
                               Len(source_key)), "/")
            ELSE source_key
    IN  IF self_destination_prefix # <<>>
        THEN self_destination_prefix \o <<"/">> \o relative_key
        ELSE relative_key

get_destination_key(source_key) ==
    destination_key(source_prefix, destination_prefix, source_key)

\* ------------------------------------------------------- source bucket
\* Keys under the source prefix, in the order list_objects_v2 returns them.
KeyOrder == << <<"d", "/", "a">>, <<"d", "/", "b">>, <<"d", "/", "c">> >>
Keys == {KeyOrder[i] : i \in 1..Len(KeyOrder)}
\* Object sizes: exactly the threshold and one byte above it.
Sizes == {MULTIPART_THRESHOLD, MULTIPART_THRESHOLD + 1}

Min(a, b) == IF a < b THEN a ELSE b

\* The bucket's content under the prefix: the first n keys, any sizes.
Listings ==
    UNION {[1..n -> Sizes] : n \in 0..Min(MaxObjects, Len(KeyOrder))}

ObjKey(i) == KeyOrder[i]

\* ------------------------------------------------------------ ledger
\* Text length of json.dump of a mapping grows with its number of entries.
TextLen(m) == Cardinality(DOMAIN m) + 1
\* A file content: len 0 is the empty (just truncated) file; val <<m>> is
\* the JSON text of mapping m, val <<>> is text json.load cannot parse.
Content(m) == [exists |-> TRUE, len |-> TextLen(m), val |-> <<m>>]
Truncated == [exists |-> TRUE, len |-> 0, val |-> <<>>]
Garbage(n) == [exists |-> TRUE, len |-> n, val |-> <<>>]
NoFile == [exists |-> FALSE, len |-> 0, val |-> <<>>]
EmptyMap == [k \in {} |-> 0]

\* An assignment that forgets the other entries of the mapping.
PutAlone(m, k, v) == [x \in {k} |-> v]

Put(m, k, v) == [x \in DOMAIN m \cup {k} |-> IF x = k THEN v ELSE m[x]]

\* A load_progress that starts fresh whatever the file holds.
load_progress_fresh(file) == EmptyMap

\* load_progress: the mapping in the file, {} when there is no file or
\* json.load raises.
load_progress(file) ==
    IF ~file.exists THEN EmptyMap
    ELSE IF file.val = <<>> THEN EmptyMap
    ELSE file.val[1]

\* Closing a handle opened with 'w' flushes its buffered text at offset 0
\* of whatever the file holds by then: a text at least as long replaces it,
\* a shorter one leaves the longer text's tail behind it, nothing written
\* leaves the file as it is.
Overlay(cur, buf) ==
    IF buf.len >= cur.len THEN buf
    ELSE IF buf.len = 0 THEN cur
    ELSE Garbage(cur.len)

\* ------------------------------------------------------- credentials
CredFiles == {"unreadable", "empty", "no_secret_key", "valid"}

\* The parsed JSON object's keys, <<>> (None) when the file cannot be read.
load_credentials_from_file(f) ==
    CASE f = "unreadable" -> <<>>
      [] f = "empty" -> <<{}>>
      [] f = "no_secret_key" -> <<{"access_key"}>>
      [] OTHER -> <<{"access_key", "secret_key"}>>

validate_source_credentials(credentials) ==
    \A key \in {"access_key", "secret_key"} : key \in credentials

\* Python truth value of the loaded credentials: None and {} are false.
Truthy(c) == c # <<>> /\ c[1] # {}

\* ------------------------------------------------------------- state
VARIABLES
    creds_file,           \* the --source-credentials file
    source,               \* source bucket under the prefix: index -> size
    changed,              \* what changed between the invocations: source, destination
    dest,                 \* destination bucket: destination key -> size
    progress_file,        \* transfer_progress.json on disk
    completed_transfers,  \* self.completed_transfers
    loaded,               \* what load_progress returned to __init__
    stats,                \* self.stats
    objects,              \* run_transfer's local list of listed objects
    queue,                \* the executor's work queue (object indices)
    futures,              \* index -> queued | running | how transfer_file ended
    w,                    \* the worker threads' locals and position
    uploads,              \* the destination's multipart uploads, one per object
    mpc,                  \* the main thread's position
    mtmp,                 \* main thread: the value read for "failed_files += 1"
    mcur,                 \* main thread: the future being handled
    clock,                \* datetime.now()
    issued,               \* copy calls issued to the stores in this run
    summary,              \* none | partial | printed
    result,               \* run_transfer's return value, <<>> before it returns
    exit_code,            \* the process's exit status, <<>> while it runs
    resumed,              \* FALSE in the first invocation, TRUE in the one after it
    listing,              \* how list_source_objects ended, and on which page
    call                  \* the last call of a helper function: its arguments and result

vars == <<creds_file, source, changed, dest, progress_file,
          completed_transfers, loaded, stats, objects, queue, futures, w, uploads,
          mpc, mtmp, mcur, clock, issued, summary, result, exit_code,
          resumed, listing, call>>

InitStats ==
    [total_files |-> 0, transferred_files |-> 0, failed_files |-> 0,
     total_size |-> 0, transferred_size |-> 0,
     start_time |-> <<>>, end_time |-> <<>>]

IdleWorker ==
    [pc |-> "idle", obj |-> 0, tmp |-> 0, skipped |-> FALSE, head |-> <<>>,
     upload_id |-> <<>>, parts |-> <<>>, part_number |-> 0, offset |-> 0,
     buf |-> <<>>, interleaved |-> FALSE]

\* list_source_objects has not run.
NoListing == [outcome |-> "none", page |-> 0]

NoUpload == [state |-> "none", parts |-> <<>>, completed |-> <<>>, aborts |-> 0]

\* What a fresh process starts from, whatever the buckets and the disk hold.
ProcessStart ==
    /\ completed_transfers = EmptyMap
    /\ loaded = EmptyMap
    /\ stats = InitStats
    /\ objects = <<>>
    /\ queue = <<>>
    /\ futures = <<>>
    /\ w = [t \in Workers |-> IdleWorker]
    /\ uploads = <<>>
    /\ listing = NoListing
    /\ mpc = "main"
    /\ mtmp = 0
    /\ mcur = 0
    /\ issued = {}
    /\ summary = "none"
    /\ result = <<>>
    /\ exit_code = <<>>

\* No helper function has been called.
NoCall == [fn |-> "none", args |-> <<>>, result |-> <<>>]

Init ==
    /\ call = NoCall
    /\ creds_file \in CredFiles
    /\ source \in (IF creds_file = "valid" THEN Listings ELSE {<<>>})
    /\ changed = {}
    /\ dest = EmptyMap
    /\ progress_file = NoFile
    /\ clock = 0
    /\ resumed = FALSE
    /\ ProcessStart

\* ------------------------------------------------------ main thread
NObjects == Len(objects)
Sum(f) ==
    LET RECURSIVE S(_)
        S(n) == IF n = 0 THEN 0 ELSE f[n] + S(n - 1)
    IN  S(Len(f))

\* sys.exit(code), or an exception nothing catches (status 1)
Exit(code) ==
    /\ exit_code' = <<code>>
    /\ mpc' = "exit"

\* main, lines 428-438: load and validate the source credentials
MainCredentials ==
    /\ mpc = "main"
    /\ LET source_creds == load_credentials_from_file(creds_file)
       IN  IF ~Truthy(source_creds) THEN Exit(1)
           ELSE IF ~validate_source_credentials(source_creds[1]) THEN Exit(1)
           ELSE mpc' = "construct" /\ UNCHANGED exit_code
    /\ UNCHANGED <<call, listing, creds_file, source, changed, dest, progress_file,
                   completed_transfers, loaded, stats, objects, queue, futures, w,
                   uploads, mtmp, mcur, clock, issued, summary, result, resumed>>

\* main, lines 441-450 and __init__: the ledger is loaded from the file
MainConstruct ==
    /\ mpc = "construct"
    /\ completed_transfers' = load_progress(progress_file)
    /\ loaded' = completed_transfers'
    /\ stats' = InitStats
    /\ mpc' = "test_access"
    /\ UNCHANGED <<call, listing, creds_file, source, changed, dest, progress_file,
                   objects, queue, futures, w, uploads, mtmp, mcur, clock,
                   issued, summary, result, exit_code, resumed>>

\* main, lines 453-458: --test-access, and what test_source_access answers
MainTestAccess ==
    /\ mpc = "test_access"
    /\ \E test_access \in BOOLEAN, passed \in BOOLEAN :
          IF test_access /\ ~passed THEN Exit(1)
          ELSE mpc' = "run_transfer" /\ UNCHANGED exit_code
    /\ UNCHANGED <<call, listing, creds_file, source, changed, dest, progress_file,
                   completed_transfers, loaded, stats, objects, queue, futures, w,
                   uploads, mtmp, mcur, clock, issued, summary, result, resumed>>

\* list_objects_v2 returns the keys in pages of this many.
PageSize == 1
\* Pages of the listing: at least one, also for an empty listing.
Pages == IF source = <<>> THEN 1 ELSE (Len(source) + PageSize - 1) \div PageSize

\* A list_source_objects that returns what the pages before the failing one
\* held.
list_source_objects_partial(outcome, page) ==
    IF outcome = "ok" THEN source
    ELSE SubSeq(source, 1, Min((page - 1) * PageSize, Len(source)))

\* list_source_objects: every page's objects; [] when fetching page `page`
\* raises a ClientError; another exception leaves the function
list_source_objects(outcome, page) ==
    IF outcome = "ok" THEN source ELSE <<>>

\* run_transfer, lines 341-358: list, count, submit everything to the pool
RunTransferStart ==
    /\ mpc = "run_transfer"
    /\ \E outcome \in {"ok", "ClientError", "Other"},
          page \in 1..Pages :
          LET listed == list_source_objects(outcome, page)
          IN  /\ listing' = [outcome |-> outcome,
                             page |-> IF outcome = "ok" THEN Pages ELSE page]
              /\ stats' = [stats EXCEPT
                    !.start_time = <<clock>>,
                    !.total_files = IF listed = <<>> THEN @ ELSE Len(listed),
                    !.total_size = IF listed = <<>> THEN @ ELSE Sum(listed)]
              /\ IF outcome = "Other"
                 THEN /\ Exit(1)
                      /\ UNCHANGED <<objects, queue, futures, uploads, result>>
                 ELSE IF listed = <<>>
                 THEN /\ result' = <<FALSE>>
                      /\ mpc' = "returned"
                      /\ UNCHANGED <<objects, queue, futures, uploads, exit_code>>
                 ELSE /\ objects' = listed
                      /\ queue' = [i \in 1..Len(listed) |-> i]
                      /\ futures' = [i \in 1..Len(listed) |-> "queued"]
                      /\ uploads' = [i \in 1..Len(listed) |-> NoUpload]
                      /\ mpc' = "wait"
                      /\ UNCHANGED <<result, exit_code>>
    /\ UNCHANGED <<call, creds_file, source, changed, dest, progress_file,
                   completed_transfers, loaded, w, mtmp, mcur, clock, issued, summary,
                   resumed>>

\* run_transfer, lines 360-365: future.result() raised; read failed_files
MainFailedRead ==
    /\ mpc = "wait"
    /\ \E i \in 1..NObjects :
          /\ futures[i] = "exc"
          /\ mcur' = i
    /\ mtmp' = stats.failed_files
    /\ mpc' = "wait_store"
    /\ UNCHANGED <<call, listing, creds_file, source, changed, dest, progress_file,
                   completed_transfers, loaded, stats, objects, queue, futures, w,
                   uploads, clock, issued, summary, result, exit_code, resumed>>

\* ... and store failed_files + 1
MainFailedWrite ==
    /\ mpc = "wait_store"
    /\ stats' = [stats EXCEPT !.failed_files = mtmp + 1]
    /\ futures' = [futures EXCEPT ![mcur] = "exc_counted"]
    /\ mpc' = "wait"
    /\ UNCHANGED <<call, listing, creds_file, source, changed, dest, progress_file,
                   completed_transfers, loaded, objects, queue, w, uploads, mtmp, mcur,
                   clock, issued, summary, result, exit_code, resumed>>

ReturnedTrue == {"true", "true_unsaved", "skipped"}
\* A loop that ends as soon as nothing is left in the executor's queue.
QueueEmpty == queue = <<>>
\* as_completed has yielded every future and every exception is counted
Drained == \A i \in 1..NObjects : futures[i] \in ReturnedTrue \cup {"false", "exc_counted"}

\* run_transfer, line 367: every future is done and the pool has shut down
RunTransferFinish ==
    /\ mpc = "wait"
    /\ Drained
    /\ \E tick \in {0, 1} : clock' = clock + tick
    /\ stats' = [stats EXCEPT !.end_time = <<clock'>>]
    /\ mpc' = "print_summary"
    /\ UNCHANGED <<call, listing, creds_file, source, changed, dest, progress_file,
                   completed_transfers, loaded, objects, queue, futures, w, uploads,
                   mtmp, mcur, issued, summary, result, exit_code, resumed>>

\* print_summary, then run_transfer's return (lines 368-385): the average
\* speed divides by duration.total_seconds()
PrintSummary ==
    /\ mpc = "print_summary"
    /\ LET duration == stats.end_time[1] - stats.start_time[1]
       IN  IF duration = 0
           THEN /\ summary' = "partial"
                /\ Exit(1)
                /\ UNCHANGED result
           ELSE /\ summary' = "printed"
                /\ result' = <<stats.failed_files = 0>>
                /\ mpc' = "returned"
                /\ UNCHANGED exit_code
    /\ UNCHANGED <<call, listing, creds_file, source, changed, dest, progress_file,
                   completed_transfers, loaded, stats, objects, queue, futures, w,
                   uploads, mtmp, mcur, clock, issued, resumed>>

\* main, lines 463-468
MainExit ==
    /\ mpc = "returned"
    /\ Exit(IF result[1] THEN 0 ELSE 1)
    /\ UNCHANGED <<call, listing, creds_file, source, changed, dest, progress_file,
                   completed_transfers, loaded, stats, objects, queue, futures, w,
                   uploads, mtmp, mcur, clock, issued, summary, result, resumed>>

\* ---------------------------------------------------- worker threads
Key(t) == ObjKey(w[t].obj)
ObjSize(t) == objects[w[t].obj]
DestKey(t) == get_destination_key(Key(t))

Goto(t, pc) == w' = [w EXCEPT ![t].pc = pc]

\* transfer_file returned: the future resolves, the thread is free.  It
\* returned True after a skip ("skipped"), after a copy ("true"), after a
\* copy whose save_progress logged a warning ("true_unsaved"), or False
Return(t, how) ==
    /\ futures' = [futures EXCEPT ![w[t].obj] = how]
    /\ w' = [w EXCEPT ![t] = IdleWorker]

\* an exception left transfer_file: the future holds it
Raise(t) ==
    /\ futures' = [futures EXCEPT ![w[t].obj] = "exc"]
    /\ w' = [w EXCEPT ![t] = IdleWorker]

\* ThreadPoolExecutor: a free thread takes the next submitted object (the
\* free threads are interchangeable: the first one does)
TakeTask(t) ==
    /\ w[t].pc = "idle"
    /\ \A u \in Workers : u < t => w[u].pc # "idle"
    /\ queue # <<>>
    /\ queue' = Tail(queue)
    /\ futures' = [futures EXCEPT ![Head(queue)] = "running"]
    /\ w' = [w EXCEPT ![t].pc = "should_skip", ![t].obj = Head(queue)]
    /\ UNCHANGED <<call, listing, creds_file, source, changed, dest, progress_file,
                   completed_transfers, loaded, stats, objects, uploads, mpc, mtmp,
                   mcur, clock, issued, summary, result, exit_code, resumed>>

\* head_object on the destination: the object's ContentLength, a ClientError
\* (404 when it is absent, 403 and others also when it is there), or
\* another exception
HeadResponse(status, n) == [status |-> status, ContentLength |-> n]
HeadResponses(dest_key) ==
    (IF dest_key \in DOMAIN dest
     THEN {HeadResponse("ok", dest[dest_key])} ELSE {})
        \cup {HeadResponse("ClientError", 0), HeadResponse("Other", 0)}
\* head_object is not called when the ledger already decides
NotCalled == HeadResponse("not called", 0)

InLedger(source_key, source_size) ==
    /\ source_key \in DOMAIN completed_transfers
    /\ completed_transfers[source_key] = source_size

\* A should_skip_transfer that takes any ledger record of the key for a
\* match, whatever size it holds.
should_skip_any_record(source_key, source_size, head) ==
    IF source_key \in DOMAIN completed_transfers THEN "skip"
    ELSE IF head.status = "ok" /\ head.ContentLength = source_size THEN "skip"
    ELSE IF head.status = "Other" THEN "raise"
    ELSE "copy"

\* A should_skip_transfer that decides on the ledger alone: head_object's
\* answer about the destination is not used.
should_skip_ledger_only(source_key, source_size, head) ==
    IF InLedger(source_key, source_size) THEN "skip"
    ELSE IF head.status = "Other" THEN "raise"
    ELSE "copy"

\* should_skip_transfer, lines 199-216, given what head_object answers:
\* "skip" (True), "copy" (False) or "raise"
should_skip_transfer(source_key, source_size, head) ==
    IF InLedger(source_key, source_size) THEN "skip"
    ELSE IF head.status = "Other" THEN "raise"
    ELSE IF head.status = "ClientError" THEN "copy"
    ELSE IF head.ContentLength = source_size THEN "skip"
    ELSE "copy"

\* A threshold test that sends an object of exactly the threshold size to
\* the multipart copy.
UseMultipartFromThreshold(size) == size >= MULTIPART_THRESHOLD

\* transfer_file, line 325
UseMultipart(size) == size > MULTIPART_THRESHOLD

\* should_skip_transfer is entered (line 317): the ledger is looked up and,
\* unless it decides, head_object is called on the destination
HeadObject(t) ==
    /\ w[t].pc = "should_skip"
    /\ \E head \in (IF InLedger(Key(t), ObjSize(t)) THEN {NotCalled}
                    ELSE HeadResponses(DestKey(t))) :
          w' = [w EXCEPT ![t].pc = "decide", ![t].head = <<head>>]
    /\ UNCHANGED <<call, listing, creds_file, source, changed, dest, progress_file,
                   completed_transfers, loaded, stats, objects, queue, futures, uploads,
                   mpc, mtmp, mcur, clock, issued, summary, result, exit_code,
                   resumed>>

\* A should_skip_transfer that writes the record of an object it finds at
\* the destination into the mapping.
ledger_healed_by_should_skip(ledger, source_key, source_size, decision) ==
    IF decision = "skip" THEN Put(ledger, source_key, source_size) ELSE ledger

\* should_skip_transfer, lines 199-216: self.completed_transfers is read
\* (lines 204-205) and never assigned
ledger_after_should_skip(ledger, source_key, source_size, decision) == ledger

\* transfer_file, lines 317-328: should_skip_transfer's answer, and for an
\* object that is not skipped the choice of the copy method
ShouldSkip(t) ==
    /\ w[t].pc = "decide"
    /\ LET decision == should_skip_transfer(Key(t), ObjSize(t), w[t].head[1])
       IN  /\ completed_transfers' =
                 ledger_after_should_skip(completed_transfers, Key(t), ObjSize(t),
                                          decision)
           /\ CASE decision = "raise" -> Raise(t)
                 [] decision = "skip" ->
                       /\ w' = [w EXCEPT ![t].pc = "files_load",
                                         ![t].skipped = TRUE,
                                         ![t].head = <<>>]
                       /\ UNCHANGED futures
                 [] OTHER ->
                       /\ w' = [w EXCEPT
                             ![t].pc = IF UseMultipart(ObjSize(t))
                                       THEN "create_multipart_upload"
                                       ELSE "small_file",
                             ![t].head = <<>>]
                       /\ UNCHANGED futures
    /\ UNCHANGED <<call, listing, creds_file, source, changed, dest, progress_file,
                   loaded, stats, objects, queue, uploads, mpc,
                   mtmp, mcur, clock, issued, summary, result, exit_code,
                   resumed>>

\* A transfer_file that starts over on the object when its copy failed.
after_transfer_retrying(success) == IF success THEN "files_load" ELSE "should_skip"

\* A transfer_file that goes on to count and record the object whatever the
\* copy returned.
after_transfer_always_success(success) == "files_load"

\* transfer_file, lines 330-335: where it goes with the copy's return value
after_transfer(success) == IF success THEN "files_load" ELSE "failed_load"

\* transfer_small_file, lines 231-248: get_object then put_object
TransferSmallFile(t) ==
    /\ w[t].pc = "small_file"
    /\ \E get \in {"ok", "ClientError", "Other"},
          put \in {"ok", "ClientError", "Other"} :
          /\ issued' = issued \cup {"get_object"}
                          \cup (IF get = "ok" THEN {"put_object"} ELSE {})
          /\ dest' = IF get = "ok" /\ put = "ok"
                     THEN Put(dest, DestKey(t), source[w[t].obj])
                     ELSE dest
          /\ IF get = "Other" \/ (get = "ok" /\ put = "Other")
             THEN Raise(t)
             ELSE /\ Goto(t, after_transfer(get = "ok" /\ put = "ok"))
                  /\ UNCHANGED futures
    /\ UNCHANGED <<call, listing, creds_file, source, changed, progress_file,
                   completed_transfers, loaded, stats, objects, queue, uploads, mpc,
                   mtmp, mcur, clock, summary, result, exit_code, resumed>>

\* ------------------------------------------------- multipart copy
\* The ETag the destination returns for a part: a digest of its bytes.
ETag(offset, len) == <<"etag", offset, len>>

\* A loop that never advances the part number.
same_part_number(part_number) == part_number

\* line 284: part_number += 1
next_part_number(part_number) == part_number + 1

\* line 266: source_stream.read(self.chunk_size) on a body with `remaining`
\* bytes left
read(remaining) == Min(chunk_size, remaining)

\* create_multipart_upload, lines 254-261.  On a ClientError the handler's
\* abort call names upload_id, which is unbound: the bare except swallows
\* that and the function returns False
CreateMultipartUpload(t) ==
    /\ w[t].pc = "create_multipart_upload"
    /\ issued' = issued \cup {"create_multipart_upload"}
    /\ \E outcome \in {"ok", "ClientError", "Other"} :
          CASE outcome = "ok" ->
                  /\ uploads' = [uploads EXCEPT ![w[t].obj].state = "open"]
                  /\ w' = [w EXCEPT ![t].pc = "get_object",
                                    ![t].upload_id = <<w[t].obj>>,
                                    ![t].parts = <<>>,
                                    ![t].part_number = 1]
                  /\ UNCHANGED futures
            [] outcome = "ClientError" ->
                  /\ Goto(t, after_transfer(FALSE))
                  /\ UNCHANGED <<uploads, futures>>
            [] OTHER ->
                  /\ Raise(t)
                  /\ UNCHANGED uploads
    /\ UNCHANGED <<call, listing, creds_file, source, changed, dest, progress_file,
                   completed_transfers, loaded, stats, objects, queue, mpc, mtmp, mcur,
                   clock, summary, result, exit_code, resumed>>

\* line 264: get_object on the source opens the body stream
MultipartGetObject(t) ==
    /\ w[t].pc = "get_object"
    /\ issued' = issued \cup {"get_object"}
    /\ \E outcome \in {"ok", "ClientError", "Other"} :
          CASE outcome = "ok" ->
                  /\ w' = [w EXCEPT ![t].pc = "upload_part", ![t].offset = 0]
                  /\ UNCHANGED futures
            [] outcome = "ClientError" ->
                  /\ Goto(t, "abort_multipart_upload")
                  /\ UNCHANGED futures
            [] OTHER -> Raise(t)
    /\ UNCHANGED <<call, listing, creds_file, source, changed, dest, progress_file,
                   completed_transfers, loaded, stats, objects, queue, uploads, mpc,
                   mtmp, mcur, clock, summary, result, exit_code, resumed>>

\* A handler that logs the failed part and goes on with the next chunk.
skip_failed_part(worker, chunk) ==
    [worker EXCEPT !.part_number = @ + 1, !.offset = @ + chunk]

\* lines 297-299: a ClientError of upload_part leaves the loop for the
\* handler, which aborts the upload
on_upload_part_error(worker, chunk) ==
    [worker EXCEPT !.pc = "abort_multipart_upload"]

\* lines 265-284: one turn of the loop: read a chunk, stop when it is
\* empty, else upload it as the next part.  The stream's read raises
\* streaming errors, never a ClientError
UploadPart(t) ==
    /\ w[t].pc = "upload_part"
    /\ LET remaining == source[w[t].obj] - w[t].offset
           chunk == read(remaining)
           part == [ETag |-> ETag(w[t].offset, chunk),
                    PartNumber |-> w[t].part_number]
       IN  \E outcome \in {"read_error", "ok", "ClientError", "Other"} :
              CASE outcome = "read_error" ->
                      /\ Raise(t)
                      /\ UNCHANGED <<uploads, issued>>
                [] chunk = 0 ->
                      /\ Goto(t, "complete_multipart_upload")
                      /\ UNCHANGED <<uploads, issued, futures>>
                [] outcome = "ok" ->
                      /\ issued' = issued \cup {"upload_part"}
                      /\ uploads' = [uploads EXCEPT ![w[t].obj].parts =
                             Append(@, [PartNumber |-> w[t].part_number,
                                        ETag |-> ETag(w[t].offset, chunk),
                                        Size |-> chunk])]
                      /\ w' = [w EXCEPT ![t].parts = Append(@, part),
                                        ![t].part_number = next_part_number(@),
                                        ![t].offset = @ + chunk]
                      /\ UNCHANGED futures
                [] outcome = "ClientError" ->
                      /\ issued' = issued \cup {"upload_part"}
                      /\ w' = [w EXCEPT ![t] = on_upload_part_error(w[t], chunk)]
                      /\ UNCHANGED <<uploads, futures>>
                [] OTHER ->
                      /\ issued' = issued \cup {"upload_part"}
                      /\ Raise(t)
                      /\ UNCHANGED uploads
    /\ UNCHANGED <<call, listing, creds_file, source, changed, dest, progress_file,
                   completed_transfers, loaded, stats, objects, queue, mpc, mtmp, mcur,
                   clock, summary, result, exit_code, resumed>>

\* The bytes of the object the destination assembles from an upload's parts.
UploadedBytes(received) ==
    LET RECURSIVE S(_)
        S(n) == IF n = 0 THEN 0 ELSE received[n].Size + S(n - 1)
    IN  S(Len(received))

\* lines 287-295: complete_multipart_upload with the collected part list
CompleteMultipartUpload(t) ==
    /\ w[t].pc = "complete_multipart_upload"
    /\ issued' = issued \cup {"complete_multipart_upload"}
    /\ \E outcome \in {"ok", "ClientError", "Other"} :
          CASE outcome = "ok" ->
                  /\ uploads' = [uploads EXCEPT
                         ![w[t].obj].state = "completed",
                         ![w[t].obj].completed = w[t].parts]
                  /\ dest' = Put(dest, DestKey(t),
                                 UploadedBytes(uploads[w[t].obj].parts))
                  /\ Goto(t, after_transfer(TRUE))
                  /\ UNCHANGED futures
            [] outcome = "ClientError" ->
                  /\ Goto(t, "abort_multipart_upload")
                  /\ UNCHANGED <<uploads, dest, futures>>
            [] OTHER ->
                  /\ Raise(t)
                  /\ UNCHANGED <<uploads, dest>>
    /\ UNCHANGED <<call, listing, creds_file, source, changed, progress_file,
                   completed_transfers, loaded, stats, objects, queue, mpc, mtmp, mcur,
                   clock, summary, result, exit_code, resumed>>

\* A handler that calls abort_multipart_upload again when it failed.
after_abort_retrying(outcome) ==
    IF outcome = "ok" THEN after_transfer(FALSE) ELSE "abort_multipart_upload"

\* lines 300-308: "except: pass" around the abort, then return False
after_abort(outcome) == after_transfer(FALSE)

\* lines 297-308: the ClientError handler aborts the upload; whatever the
\* abort raises is swallowed, and the function returns False
AbortMultipartUpload(t) ==
    /\ w[t].pc = "abort_multipart_upload"
    /\ issued' = issued \cup {"abort_multipart_upload"}
    /\ \E outcome \in {"ok", "error"} :
          /\ uploads' = [uploads EXCEPT
              ![w[t].obj].aborts = @ + 1,
              ![w[t].obj].state = IF outcome = "ok" THEN "aborted" ELSE @]
          /\ Goto(t, after_abort(outcome))
    /\ UNCHANGED <<call, listing, creds_file, source, changed, dest, progress_file,
                   completed_transfers, loaded, stats, objects, queue, futures, mpc,
                   mtmp, mcur, clock, summary, result, exit_code, resumed>>

\* --------------------------------------- statistics and the ledger
\* lines 319 and 331: stats['transferred_files'] += 1, the read ...
TransferredFilesLoad(t) ==
    /\ w[t].pc = "files_load"
    /\ w' = [w EXCEPT ![t].tmp = stats.transferred_files, ![t].pc = "files_store"]
    /\ UNCHANGED <<call, listing, creds_file, source, changed, dest, progress_file,
                   completed_transfers, loaded, stats, objects, queue, futures, uploads,
                   mpc, mtmp, mcur, clock, issued, summary, result, exit_code,
                   resumed>>

\* ... and the store
TransferredFilesStore(t) ==
    /\ w[t].pc = "files_store"
    /\ stats' = [stats EXCEPT !.transferred_files = w[t].tmp + 1]
    /\ Goto(t, "size_load")
    /\ UNCHANGED <<call, listing, creds_file, source, changed, dest, progress_file,
                   completed_transfers, loaded, objects, queue, futures, uploads, mpc,
                   mtmp, mcur, clock, issued, summary, result, exit_code, resumed>>

\* lines 320 and 332: stats['transferred_size'] += size, the read ...
TransferredSizeLoad(t) ==
    /\ w[t].pc = "size_load"
    /\ w' = [w EXCEPT ![t].tmp = stats.transferred_size, ![t].pc = "size_store"]
    /\ UNCHANGED <<call, listing, creds_file, source, changed, dest, progress_file,
                   completed_transfers, loaded, stats, objects, queue, futures, uploads,
                   mpc, mtmp, mcur, clock, issued, summary, result, exit_code,
                   resumed>>

\* A transfer_file that records every counted object, a skipped one too.
after_counting_always_saves(skipped) == "save_progress"

\* lines 319-321 and 331-333: after the counters a skipped object returns
\* True, a copied one is recorded by save_progress
after_counting(skipped) == IF skipped THEN "return" ELSE "save_progress"

\* ... and the store; a skipped object returns True here (line 321)
TransferredSizeStore(t) ==
    /\ w[t].pc = "size_store"
    /\ stats' = [stats EXCEPT !.transferred_size = w[t].tmp + ObjSize(t)]
    /\ IF after_counting(w[t].skipped) = "return"
       THEN Return(t, "skipped")
       ELSE Goto(t, "save_progress") /\ UNCHANGED futures
    /\ UNCHANGED <<call, listing, creds_file, source, changed, dest, progress_file,
                   completed_transfers, loaded, objects, queue, uploads, mpc, mtmp,
                   mcur, clock, issued, summary, result, exit_code, resumed>>

\* A save_progress whose exception is not caught: it leaves transfer_file.
save_progress_raises(saved) == IF saved THEN "true" ELSE "exc"

\* How transfer_file ends after save_progress (lines 103-107, 337): the
\* exception of a failed write is caught and logged, success is returned
save_progress_returns(saved) == IF saved THEN "true" ELSE "true_unsaved"

\* Thread t is inside save_progress, past the assignment to the mapping.
Rewriting(t) == w[t].pc \in {"open", "dump", "close"}

\* Thread t takes a step of save_progress that makes its worker record
\* `mine`: every other thread that is inside save_progress has its call
\* interleaved with t's, and so has t's when it enters among them
Interleave(t, mine) ==
    [u \in Workers |->
        IF u = t
        THEN IF w[t].pc = "save_progress"
             THEN [mine EXCEPT !.interleaved = \E v \in Workers \ {t} : Rewriting(v)]
             ELSE mine
        ELSE IF Rewriting(u) THEN [w[u] EXCEPT !.interleaved = TRUE]
        ELSE w[u]]

\* save_progress, lines 99-102: the entry is set in the shared mapping
SaveProgressAssign(t) ==
    /\ w[t].pc = "save_progress"
    /\ completed_transfers' = Put(completed_transfers, Key(t), ObjSize(t))
    /\ w' = Interleave(t, [w[t] EXCEPT !.pc = "open"])
    /\ UNCHANGED <<call, listing, creds_file, source, changed, dest, progress_file, loaded,
                   stats, objects, queue, futures, uploads, mpc, mtmp, mcur,
                   clock, issued, summary, result, exit_code, resumed>>

\* line 104: open(..., 'w') truncates the file; if it raises, the warning
\* is logged and transfer_file goes on to return True
SaveProgressOpen(t) ==
    /\ w[t].pc = "open"
    /\ \E outcome \in {"ok", "error"} :
          IF outcome = "ok"
          THEN /\ progress_file' = Truncated
               /\ w' = Interleave(t, [w[t] EXCEPT !.pc = "dump"])
               /\ UNCHANGED futures
          ELSE /\ futures' = [futures EXCEPT ![w[t].obj] = save_progress_returns(FALSE)]
               /\ w' = Interleave(t, IdleWorker)
               /\ UNCHANGED progress_file
    /\ UNCHANGED <<call, listing, creds_file, source, changed, dest,
                   completed_transfers, loaded, stats, objects, queue, uploads, mpc,
                   mtmp, mcur, clock, issued, summary, result, exit_code, resumed>>

\* line 105: json.dump writes the mapping as it is now into the handle's
\* buffer; if it raises (a write error, the dict changed size during the
\* iteration) nothing of it has reached the file
SaveProgressDump(t) ==
    /\ w[t].pc = "dump"
    /\ \E outcome \in {"ok", "error"} :
          w' = Interleave(t, [w[t] EXCEPT
                    !.pc = "close",
                    !.buf = IF outcome = "ok"
                            THEN <<Content(completed_transfers)>>
                            ELSE <<Truncated>>])
    /\ UNCHANGED <<call, listing, creds_file, source, changed, dest, progress_file,
                   completed_transfers, loaded, stats, objects, queue, futures, uploads,
                   mpc, mtmp, mcur, clock, issued, summary, result, exit_code,
                   resumed>>

\* leaving the with block closes the handle, which flushes the buffer;
\* save_progress and transfer_file return (success is True)
SaveProgressClose(t) ==
    /\ w[t].pc = "close"
    /\ progress_file' = Overlay(progress_file, w[t].buf[1])
    /\ futures' = [futures EXCEPT ![w[t].obj] =
                       save_progress_returns(w[t].buf[1].val # <<>>)]
    /\ w' = Interleave(t, IdleWorker)
    /\ UNCHANGED <<call, listing, creds_file, source, changed, dest,
                   completed_transfers, loaded, stats, objects, queue, uploads, mpc,
                   mtmp, mcur, clock, issued, summary, result, exit_code, resumed>>

\* line 335: stats['failed_files'] += 1, the read ...
FailedFilesLoad(t) ==
    /\ w[t].pc = "failed_load"
    /\ w' = [w EXCEPT ![t].tmp = stats.failed_files, ![t].pc = "failed_store"]
    /\ UNCHANGED <<call, listing, creds_file, source, changed, dest, progress_file,
                   completed_transfers, loaded, stats, objects, queue, futures, uploads,
                   mpc, mtmp, mcur, clock, issued, summary, result, exit_code,
                   resumed>>

\* ... and the store; transfer_file returns False
FailedFilesStore(t) ==
    /\ w[t].pc = "failed_store"
    /\ stats' = [stats EXCEPT !.failed_files = w[t].tmp + 1]
    /\ Return(t, "false")
    /\ UNCHANGED <<call, listing, creds_file, source, changed, dest, progress_file,
                   completed_transfers, loaded, objects, queue, uploads, mpc, mtmp,
                   mcur, clock, issued, summary, result, exit_code, resumed>>

\* ------------------------------------------------- helper functions
\* Characters of keys and prefixes: the separator, a character of the
\* prefix and another one.
Chars == {"/", "d", "a"}
\* Longest source key and longest configured prefix.
MaxKeyLen == 4
MaxPrefixLen == 2
Strings(n) == UNION {[1..k -> Chars] : k \in 0..n}

StartsWith(s, p) == Len(p) <= Len(s) /\ SubSeq(s, 1, Len(p)) = p

\* Keys list_objects_v2 can return for Prefix = p: non-empty, starting with p.
KeysUnder(p) == {k \in Strings(MaxKeyLen) : k # <<>> /\ StartsWith(k, p)}

\* get_destination_key is called on an object constructed with these
\* --source-prefix and --dest-prefix, for a key listed under the prefix
GetDestinationKey ==
    /\ call = NoCall
    /\ \E src_prefix \in Strings(MaxPrefixLen), dst_prefix \in Strings(MaxPrefixLen) :
          \E source_key \in KeysUnder(rstrip(src_prefix, "/")) :
             call' = [fn |-> "get_destination_key",
                      args |-> <<src_prefix, dst_prefix, source_key>>,
                      result |-> <<destination_key(rstrip(src_prefix, "/"),
                                                   rstrip(dst_prefix, "/"),
                                                   source_key)>>]
    /\ UNCHANGED <<listing, creds_file, source, changed, dest, progress_file,
                   completed_transfers, loaded, stats, objects, queue, futures,
                   w, uploads, mpc, mtmp, mcur, clock, issued, summary, result,
                   exit_code, resumed>>

\* ------------------------------------- monitor_transfer.py: format_size
\* A byte count is m * 1024^e, kept as the pair: the counts of interest
\* exceed the checker's integers, and dividing by 1024.0 is exact on them
\* (m < 2^20, so every value is a double with no rounding).
Bytes(m, e) == [m |-> m, e |-> e]
\* Largest power of 1024 of a byte count.
MaxExponent == 4
Mantissas == {0, 1, 512, 1023, 1024, 1025, 1280, 1536, 2047, 1048575}
ByteCounts == {Bytes(m, e) : m \in Mantissas, e \in 0..MaxExponent}

Pow1024(k) == IF k = 0 THEN 1 ELSE IF k = 1 THEN 1024
              ELSE IF k = 2 THEN 1048576 ELSE 1073741824

\* line 30: size_bytes >= 1024
AtLeast1024(x) ==
    IF x.e >= 1 THEN x.m >= 1
    ELSE IF 1 - x.e <= 3 THEN x.m >= Pow1024(1 - x.e)
    ELSE FALSE

\* line 28
size_names == <<"B", "KB", "MB", "GB", "TB">>

\* lines 29-32: the loop, from value x and index i (0-based, as in the code)
RECURSIVE format_size_loop(_, _)
format_size_loop(x, i) ==
    IF AtLeast1024(x) /\ i < Len(size_names) - 1
    THEN format_size_loop(Bytes(x.m, x.e - 1), i + 1)
    ELSE [size_bytes |-> x, i |-> i]

\* "{:.2f}": the value rounded to hundredths, ties to the even digit
TwoDecimals(x) ==
    IF x.e >= 0 THEN [whole |-> x.m * Pow1024(x.e), frac |-> 0]
    ELSE LET d == Pow1024(0 - x.e)
             whole == x.m \div d
             n == (x.m % d) * 100
             q == n \div d
             r == n % d
             h == IF 2 * r > d \/ (2 * r = d /\ q % 2 = 1) THEN q + 1 ELSE q
         IN  IF h = 100 THEN [whole |-> whole + 1, frac |-> 0]
             ELSE [whole |-> whole, frac |-> h]

\* The text format_size returns: the digits before the point, the two
\* decimals if any, what separates the number from the unit, the unit.
Rendered(whole, frac, sep, unit) ==
    [whole |-> whole, frac |-> frac, sep |-> sep, unit |-> unit]

\* A format_size without the special case of line 25.
format_size_no_zero_case(size_bytes) ==
    LET end == format_size_loop(size_bytes, 0)
        number == TwoDecimals(end.size_bytes)
    IN  Rendered(number.whole, <<number.frac>>, " ", size_names[end.i + 1])

\* format_size, lines 23-34
format_size(size_bytes) ==
    IF size_bytes.m = 0 THEN Rendered(0, <<>>, "", "B")
    ELSE LET end == format_size_loop(size_bytes, 0)
             number == TwoDecimals(end.size_bytes)
         IN  Rendered(number.whole, <<number.frac>>, " ", size_names[end.i + 1])

\* format_size is called on a byte count
FormatSize ==
    /\ call = NoCall
    /\ \E size_bytes \in ByteCounts :
          call' = [fn |-> "format_size",
                   args |-> <<size_bytes>>,
                   result |-> <<format_size(size_bytes)>>]
    /\ UNCHANGED <<listing, creds_file, source, changed, dest, progress_file,
                   completed_transfers, loaded, stats, objects, queue, futures,
                   w, uploads, mpc, mtmp, mcur, clock, issued, summary, result,
                   exit_code, resumed>>

\* ------------------------------------------------- the next invocation
\* The program is started again on the same buckets and the same disk.
\* Meanwhile an object of the source may have been overwritten with another
\* size, or an object of the destination deleted.
Restart ==
    /\ mpc = "exit"
    /\ ~resumed
    /\ creds_file = "valid"
    /\ resumed' = TRUE
    /\ clock' = 0
    /\ \E change \in {"none", "source", "destination"} :
          CASE change = "source" ->
                  /\ \E i \in DOMAIN source :
                        \E s \in Sizes \ {source[i]} :
                           source' = [source EXCEPT ![i] = s]
                  /\ changed' = {"source"}
                  /\ dest' = dest
            [] change = "destination" ->
                  /\ \E gone \in DOMAIN dest :
                        dest' = [k \in DOMAIN dest \ {gone} |-> dest[k]]
                  /\ changed' = {"destination"}
                  /\ source' = source
            [] OTHER ->
                  /\ changed' = {}
                  /\ UNCHANGED <<source, dest>>
    /\ completed_transfers' = EmptyMap
    /\ loaded' = EmptyMap
    /\ stats' = InitStats
    /\ objects' = <<>>
    /\ queue' = <<>>
    /\ futures' = <<>>
    /\ w' = [t \in Workers |-> IdleWorker]
    /\ uploads' = <<>>
    /\ listing' = NoListing
    /\ mpc' = "main"
    /\ mtmp' = 0
    /\ mcur' = 0
    /\ issued' = {}
    /\ summary' = "none"
    /\ result' = <<>>
    /\ exit_code' = <<>>
    /\ UNCHANGED <<call, creds_file, progress_file>>

Worker(t) ==
    \/ TakeTask(t)
    \/ HeadObject(t)
    \/ ShouldSkip(t)
    \/ TransferSmallFile(t)
    \/ CreateMultipartUpload(t)
    \/ MultipartGetObject(t)
    \/ UploadPart(t)
    \/ CompleteMultipartUpload(t)
    \/ AbortMultipartUpload(t)
    \/ TransferredFilesLoad(t)
    \/ TransferredFilesStore(t)
    \/ TransferredSizeLoad(t)
    \/ TransferredSizeStore(t)
    \/ SaveProgressAssign(t)
    \/ SaveProgressOpen(t)
    \/ SaveProgressDump(t)
    \/ SaveProgressClose(t)
    \/ FailedFilesLoad(t)
    \/ FailedFilesStore(t)

Main ==
    \/ MainCredentials
    \/ MainConstruct
    \/ MainTestAccess
    \/ RunTransferStart
    \/ MainFailedRead
    \/ MainFailedWrite
    \/ RunTransferFinish
    \/ PrintSummary
    \/ MainExit

\* One invocation of the program on an empty destination and no ledger.
Next ==
    \/ Main
    \/ \E t \in Workers : Worker(t)

Spec == Init /\ [][Next]_vars

\* One invocation in which every thread that can take a step eventually
\* takes one: the operating system schedules the main thread and every pool
\* thread, and every storage call returns or raises.
SpecFair ==
    /\ Spec
    /\ WF_vars(Main)
    /\ \A t \in Workers : WF_vars(Worker(t))

\* An invocation and the one that resumes it.
NextResume ==
    \/ Next
    \/ Restart

SpecResume == Init /\ [][NextResume]_vars

\* The helper functions, called on any arguments.
InitFunctions ==
    /\ Init
    /\ creds_file = "valid"
    /\ source = <<>>

NextFunctions ==
    \/ GetDestinationKey
    \/ FormatSize

SpecFunctions == InitFunctions /\ [][NextFunctions]_vars

\* ================================================================ claims
\* Objects whose transfer_file returned False or raised.
FailedSet ==
    {i \in 1..NObjects : futures[i] \in {"false", "exc", "exc_counted"}}

\* Objects were submitted, every worker has drained and the as_completed
\* loop is over.
Finished ==
    /\ objects # <<>>
    /\ mpc \in {"print_summary", "returned", "exit"}

\* C1: failure isolation.  Once all workers have drained, failed_files is
\* the number of objects whose copy failed or raised, transferred_files is
\* the number of the others, and run_transfer returns False exactly when
\* some object failed.
C1_FailureIsolation ==
    Finished =>
        /\ stats.failed_files = Cardinality(FailedSet)
        /\ stats.transferred_files = NObjects - Cardinality(FailedSet)
        /\ result # <<>> => (result[1] = FALSE <=> FailedSet # {})

\* The progress file holds a record with the object's size for object i.
Persisted(i) ==
    /\ progress_file.val # <<>>
    /\ ObjKey(i) \in DOMAIN progress_file.val[1]
    /\ progress_file.val[1][ObjKey(i)] = objects[i]

\* C2: once all workers have drained, the persisted ledger holds a record
\* with the object's size for every object copied in this run, whatever the
\* interleaving of the save_progress calls (stated for the runs in which no
\* save_progress call raised).
C2_LedgerComplete ==
    (Finished /\ \A i \in 1..NObjects : futures[i] # "true_unsaved")
        => \A i \in 1..NObjects : futures[i] = "true" => Persisted(i)

\* Threads between save_progress's assignment to the mapping and the close
\* of the rewritten file.
InSaveProgress == {t \in Workers : w[t].pc \in {"open", "dump", "close"}}

\* C3: record() calls are serialized: never two threads inside
\* save_progress's modify-and-rewrite section at once.
C3_SaveProgressSerialized == Cardinality(InSaveProgress) <= 1

\* The ledger holds a record of the key with this size.
LedgerMatch(source_key, source_size) ==
    /\ source_key \in DOMAIN completed_transfers
    /\ completed_transfers[source_key] = source_size

\* The destination holds an object of this size at the mapped key.
DestinationMatch(source_key, source_size) ==
    /\ get_destination_key(source_key) \in DOMAIN dest
    /\ dest[get_destination_key(source_key)] = source_size

\* head_object answered, and with this size.
HeadMatch(t) ==
    /\ w[t].head[1].status = "ok"
    /\ w[t].head[1].ContentLength = objects[w[t].obj]

\* Thread t leaves should_skip_transfer in this step.
Decides(t) == w[t].pc = "decide" /\ w'[t].pc # "decide"

\* C4 as the code has it: should_skip_transfer answers skip exactly when the
\* ledger holds a record of the key with the object's size, or head_object
\* on the mapped destination key succeeds and reports the object's size.  A
\* head_object that fails with a ClientError counts as an absent object
\* whatever the destination holds, and a ledger record with another size
\* decides nothing.
C4_SkipDecision ==
    [][\A t \in Workers :
          Decides(t) =>
              (w'[t].skipped <=>
                  \/ LedgerMatch(ObjKey(w[t].obj), objects[w[t].obj])
                  \/ HeadMatch(t))]_vars

\* C4 as stated: should_skip_transfer answers skip exactly when the ledger
\* holds a record of the key with the object's size or the destination
\* holds an object of that size at the mapped key.
C4_SkipIffLedgerOrDestination ==
    [][\A t \in Workers :
          Decides(t) =>
              (w'[t].skipped <=>
                  \/ LedgerMatch(ObjKey(w[t].obj), objects[w[t].obj])
                  \/ DestinationMatch(ObjKey(w[t].obj), objects[w[t].obj]))]_vars

\* An object is being skipped on its ledger record alone: the destination
\* holds nothing at its key.
C4_LedgerSkipWithoutDestination ==
    \E t \in Workers :
        /\ w[t].skipped
        /\ LedgerMatch(ObjKey(w[t].obj), objects[w[t].obj])
        /\ get_destination_key(ObjKey(w[t].obj)) \notin DOMAIN dest

\* C5: idempotence.  In the invocation that resumes an unchanged source
\* with the first run's ledger (every listed object recorded with its size),
\* no get, put or multipart call is issued, every object is skipped and
\* transferred_files == total_files at the end.
C5_Idempotence ==
    (/\ resumed
     /\ changed = {}
     /\ Finished
     /\ \A i \in 1..NObjects :
           ObjKey(i) \in DOMAIN loaded /\ loaded[ObjKey(i)] = objects[i])
    => /\ issued = {}
       /\ \A i \in 1..NObjects : futures[i] = "skipped"
       /\ stats.transferred_files = stats.total_files

\* Positions of a thread inside transfer_large_file.
MultipartPcs ==
    {"create_multipart_upload", "get_object", "upload_part",
     "complete_multipart_upload", "abort_multipart_upload"}

\* C6: an object of at most 100 MiB is never in the multipart copy and never
\* has a multipart upload, an object of more than 100 MiB is never in the
\* simple copy, and a copied object went through a completed multipart
\* upload exactly when it is larger than 100 MiB.
C6_MultipartBoundary ==
    /\ \A t \in Workers :
          /\ w[t].pc \in MultipartPcs => objects[w[t].obj] > 100 * 1024 * 1024
          /\ w[t].pc = "small_file" => objects[w[t].obj] <= 100 * 1024 * 1024
    /\ \A i \in 1..NObjects :
          /\ uploads[i].state # "none" => objects[i] > 100 * 1024 * 1024
          /\ futures[i] \in {"true", "true_unsaved"} =>
                (uploads[i].state = "completed" <=> objects[i] > 100 * 1024 * 1024)

\* An object of exactly 100 MiB is in the simple copy.
C6_ExactlyThresholdIsSimple ==
    \E t \in Workers :
        /\ w[t].pc = "small_file"
        /\ objects[w[t].obj] = 100 * 1024 * 1024

\* C7: multipart completeness.  For a completed upload of an object read as
\* N chunks, the part list given to complete_multipart_upload is parts 1..N
\* in this order, each with the ETag the destination returned for it, N is
\* the number of chunk_size pieces of the object, and the bytes uploaded
\* add up to the source object's size.
C7_MultipartCompleteness ==
    \A i \in 1..NObjects :
        uploads[i].state = "completed" =>
            LET sent == uploads[i].completed
                received == uploads[i].parts
                N == Len(received)
            IN  /\ Len(sent) = N
                /\ N = (source[i] + chunk_size - 1) \div chunk_size
                /\ \A k \in 1..N :
                      /\ sent[k].PartNumber = k
                      /\ received[k].PartNumber = k
                      /\ sent[k].ETag = received[k].ETag
                /\ UploadedBytes(received) = source[i]

\* An upload of several parts, the last one shorter, has been completed.
C7_CompletedSeveralParts ==
    \E i \in 1..NObjects :
        /\ uploads[i].state = "completed"
        /\ Len(uploads[i].completed) >= 3
        /\ uploads[i].parts[Len(uploads[i].parts)].Size < chunk_size

\* C8: an object reported as failed whose multipart upload had been
\* initiated has had an abort of that upload attempted.
C8_AbortOnEveryFailure ==
    \A i \in 1..NObjects :
        (i \in FailedSet /\ uploads[i].state # "none") => uploads[i].aborts >= 1

\* C9: the program exits with 0 if and only if the run completed (every
\* submitted object resolved, line 367 reached) with no failed object; it
\* exits with 1 in every other case.
C9_ExitCode ==
    mpc = "exit" =>
        /\ exit_code \in {<<0>>, <<1>>}
        /\ exit_code = <<0>> <=> (stats.end_time # <<>> /\ FailedSet = {})

\* C10: every invocation of run_transfer has printed the final summary by
\* the time it returns or the process exits.
C10_SummaryAlwaysPrinted ==
    (stats.start_time # <<>> /\ mpc \in {"returned", "exit"})
        => summary = "printed"

\* The configured prefix without its trailing separators.
Stem(configured) ==
    CHOOSE p \in {SubSeq(configured, 1, n) : n \in 0..Len(configured)} :
        /\ p = <<>> \/ p[Len(p)] # "/"
        /\ \A i \in (Len(p) + 1)..Len(configured) : configured[i] = "/"

\* What is left of the key after the prefix and the separators following it.
Remainder(p, key) ==
    CHOOSE r \in {SubSeq(key, n + 1, Len(key)) : n \in Len(p)..Len(key)} :
        /\ r = <<>> \/ r[1] # "/"
        /\ \A i \in (Len(p) + 1)..(Len(key) - Len(r)) : key[i] = "/"

\* C11: get_destination_key removes the configured source prefix from the
\* front of the key and puts the configured destination prefix before what
\* is left, joined by exactly one separator; with no source prefix the key
\* is kept whole, with no destination prefix nothing is put before it; and
\* "data/2024/file.csv" under "data" maps to "backup/2024/file.csv" for
\* destination prefix "backup" (written d/2/f under d, b).
C11_DestinationKeyMapping ==
    /\ call.fn = "get_destination_key" =>
          LET p == Stem(call.args[1])
              q == Stem(call.args[2])
              key == call.args[3]
              relative == IF p = <<>> THEN key ELSE Remainder(p, key)
          IN  call.result[1] = IF q = <<>> THEN relative
                               ELSE q \o <<"/">> \o relative
    /\ destination_key(rstrip(<<"d", "a", "t", "a">>, "/"), rstrip(<<"b", "k">>, "/"),
                       <<"d", "a", "t", "a", "/", "2", "/", "f">>)
          = <<"b", "k", "/", "2", "/", "f">>

\* A key under the source prefix has been mapped under the destination
\* prefix, both prefixes configured with a trailing separator or without.
C11_PrefixReplaced ==
    /\ call.fn = "get_destination_key"
    /\ call.args = << <<"d">>, <<"a", "/">>, <<"d", "/", "a", "d">> >>
    /\ call.result = << <<"a", "/", "a", "d">> >>

\* The in-memory ledger holds a record of object i that this run wrote.
Recorded(i) ==
    /\ ObjKey(i) \in DOMAIN completed_transfers
    /\ \/ ObjKey(i) \notin DOMAIN loaded
       \/ loaded[ObjKey(i)] # completed_transfers[ObjKey(i)]

\* The progress file holds a record of object i that this run wrote.
RecordedInFile(i) ==
    /\ progress_file.val # <<>>
    /\ ObjKey(i) \in DOMAIN progress_file.val[1]
    /\ \/ ObjKey(i) \notin DOMAIN loaded
       \/ loaded[ObjKey(i)] # progress_file.val[1][ObjKey(i)]

\* Object i's copy has failed: its thread is on the failure path, or
\* transfer_file has returned False or raised.
Failing(i) ==
    \/ i \in FailedSet
    \/ \E t \in Workers :
          /\ w[t].obj = i
          /\ w[t].pc \in {"abort_multipart_upload", "failed_load", "failed_store"}

\* Thread t is inside save_progress.
Saving(t) == w[t].pc \in {"save_progress", "open", "dump", "close"}

C12_RecordsOnlyOfCopies ==
    \A i \in 1..NObjects :
        /\ Recorded(i) =>
              /\ completed_transfers[ObjKey(i)] = objects[i]
              /\ DestinationMatch(ObjKey(i), objects[i])
              /\ ~Failing(i)
        /\ RecordedInFile(i) =>
              /\ progress_file.val[1][ObjKey(i)] = objects[i]
              /\ DestinationMatch(ObjKey(i), objects[i])
              /\ ~Failing(i)

C12_OnlySaveProgressWrites ==
    \/ UNCHANGED <<completed_transfers, progress_file>>
    \/ \E t \in Workers : Saving(t) /\ w'[t] # w[t] /\ ~Failing(w[t].obj)

\* C12: a record of key K with size S that the run wrote, in the in-memory
\* ledger or in the progress file, is there only after the copy of K with
\* size S to the destination has succeeded; the ledger and the file change
\* only in steps of save_progress of a thread whose copy succeeded, so a
\* transfer that fails (returns False or raises) changes neither.
C12_NoRecordWithoutCopy ==
    /\ []C12_RecordsOnlyOfCopies
    /\ [][C12_OnlySaveProgressWrites]_vars

\* One object has been copied and recorded, another has failed and has no
\* record.
C12_RecordedAndFailed ==
    \E i, j \in 1..NObjects :
        /\ futures[i] = "true" /\ Persisted(i) /\ Recorded(i)
        /\ j \in FailedSet
        /\ ObjKey(j) \notin DOMAIN completed_transfers

\* C13: when a page of the source listing fails with a ClientError, the run
\* has listed nothing: nothing is submitted to the pool, no call that reads
\* the source or writes the destination is issued, no multipart upload is
\* initiated, the ledger and the progress file stay as loaded, and
\* run_transfer returns False (exit status 1).
C13_ListingErrorAbortsRun ==
    listing.outcome = "ClientError" =>
        /\ objects = <<>> /\ queue = <<>> /\ futures = <<>>
        /\ \A t \in Workers : w[t] = IdleWorker
        /\ issued = {}
        /\ uploads = <<>>
        /\ dest = EmptyMap
        /\ completed_transfers = loaded
        /\ progress_file = NoFile
        /\ mpc \in {"returned", "exit"}
        /\ result = <<FALSE>>
        /\ exit_code \in {<<>>, <<1>>}

\* The listing failed on its second page, after a page of objects, and the
\* program has exited with status 1.
C13_SecondPageFailed ==
    /\ listing = [outcome |-> "ClientError", page |-> 2]
    /\ source # <<>>
    /\ exit_code = <<1>>

\* Thread t's step sets its entry in the mapping (lines 99-102).
Assigns(t) == w[t].pc = "save_progress" /\ w'[t].pc = "open"

\* Thread t's step returns from a save_progress call that no other call was
\* interleaved with.
ReturnsAlone(t) ==
    /\ Rewriting(t)
    /\ w'[t].pc = "idle"
    /\ ~w[t].interleaved
    /\ \A u \in Workers \ {t} : ~Rewriting(u)

\* The call adds or overwrites exactly the entry of its key.
ExactlyOneEntry(t) ==
    /\ DOMAIN completed_transfers' = DOMAIN completed_transfers \cup {ObjKey(w[t].obj)}
    /\ completed_transfers'[ObjKey(w[t].obj)] = objects[w[t].obj]
    /\ \A k \in DOMAIN completed_transfers \ {ObjKey(w[t].obj)} :
          completed_transfers'[k] = completed_transfers[k]

\* The file holds the text of the whole in-memory mapping.
FileIsMapping ==
    /\ progress_file'.exists
    /\ progress_file'.val = <<completed_transfers'>>
    /\ completed_transfers' = completed_transfers

\* C14 as the code has it: a save_progress call sets exactly the entry of
\* its key and leaves every other entry as it was; when no other call is
\* interleaved with it and neither open nor json.dump raises, the file
\* holds the whole in-memory mapping when it returns.  When open or
\* json.dump raises, the warning is logged and the file is left as it was
\* or truncated.
C14_RecordRewritesFile ==
    [][\A t \in Workers :
          /\ Assigns(t) => ExactlyOneEntry(t)
          /\ (ReturnsAlone(t) /\ futures'[w[t].obj] = "true") => FileIsMapping]_vars

\* C14 as stated: every save_progress call that is not interleaved with
\* another sets exactly its entry and leaves the file equal to the whole
\* in-memory mapping.
C14_RecordAlwaysRewritesFile ==
    [][\A t \in Workers :
          /\ Assigns(t) => ExactlyOneEntry(t)
          /\ ReturnsAlone(t) => FileIsMapping]_vars

\* A call that nothing is interleaved with is about to close the file it
\* has written a mapping of two entries into, one of them from before.
C14_SecondRecordAlone ==
    \E t \in Workers :
        /\ w[t].pc = "close"
        /\ ~w[t].interleaved
        /\ \A u \in Workers \ {t} : ~Saving(u)
        /\ w[t].buf[1].val = <<completed_transfers>>
        /\ Cardinality(DOMAIN completed_transfers) = 2

\* The progress file exists and holds the JSON text of a mapping.
Readable(file) == file.exists /\ file.val # <<>>

\* C15: constructing the transfer object loads the persisted mapping when
\* the progress file exists and is readable, and the empty mapping when
\* there is no file or it cannot be parsed; in every case startup goes on
\* to the access test and the run, and the process does not exit.
C15_LoadNeverAborts ==
    [][mpc = "construct" =>
          /\ completed_transfers' =
                 IF Readable(progress_file) THEN progress_file.val[1]
                 ELSE [k \in {} |-> 0]
          /\ mpc' = "test_access"
          /\ exit_code' = <<>>
          /\ progress_file' = progress_file]_vars

\* The resumed invocation has started from an empty ledger on a progress
\* file that exists and cannot be parsed, and has gone on to list and submit.
C15_UnreadableStartsFresh ==
    /\ resumed
    /\ loaded = [k \in {} |-> 0]
    /\ mpc = "wait"
    /\ progress_file.exists /\ progress_file.val = <<>>
    /\ \A i \in 1..NObjects : futures[i] = "queued"

\* transfer_file has ended for object i.
Resolved(i) == futures[i] \notin {"queued", "running"}

C16_UnsavedIsSuccess ==
    /\ \A i \in 1..NObjects :
          (Resolved(i) /\ DestinationMatch(ObjKey(i), objects[i]))
              => futures[i] \in {"true", "true_unsaved"}
    /\ (Finished /\ NObjects = 1 /\ futures[1] = "true_unsaved") =>
          /\ stats.transferred_files = 1
          /\ stats.transferred_size = objects[1]
          /\ stats.failed_files = 0
    /\ (Finished /\ result # <<>>) =>
          (result[1] <=> \A i \in 1..NObjects : futures[i] \in {"true", "true_unsaved"})

C16_SaveLeavesStats ==
    (\E t \in Workers : Saving(t) /\ w'[t] # w[t] /\ w[t].pc # w'[t].pc)
        => stats' = stats

\* C16: an object that was copied to the destination ends as a success
\* whether or not save_progress could write the ledger: transfer_file
\* returns True, the steps of save_progress leave the counters as the
\* success path set them (for a single object: transferred_files 1,
\* transferred_size its size, failed_files 0), and run_transfer returns
\* True exactly when every object was copied, saved or not.
C16_PersistFailureIsNotFailure ==
    /\ []C16_UnsavedIsSuccess
    /\ [][C16_SaveLeavesStats]_vars

\* A run whose only object was copied and could not be recorded has
\* returned True and exited with status 0.
C16_UnsavedRunSucceeded ==
    /\ NObjects = 1
    /\ futures[1] = "true_unsaved"
    /\ result = <<TRUE>>
    /\ exit_code = <<0>>
    /\ stats.transferred_files = 1 /\ stats.failed_files = 0

\* How many times object i is in the executor's queue, and how many
\* threads are working on it.
TimesQueued(i) == Cardinality({k \in 1..Len(queue) : queue[k] = i})
ThreadsOn(i) == Cardinality({t \in Workers : w[t].pc # "idle" /\ w[t].obj = i})

C17_SubmittedOnce ==
    /\ objects # <<>> =>
          /\ listing = [outcome |-> "ok", page |-> Pages]
          /\ objects = source
          /\ DOMAIN futures = 1..Len(source)
    /\ objects = <<>> => (queue = <<>> /\ \A t \in Workers : w[t].pc = "idle")
    /\ \A i \in 1..NObjects :
          /\ TimesQueued(i) + ThreadsOn(i) + (IF Resolved(i) THEN 1 ELSE 0) = 1
          /\ futures[i] = "queued" <=> TimesQueued(i) = 1
          /\ futures[i] = "running" <=> ThreadsOn(i) = 1
    /\ (stats.end_time # <<>> \/ (objects # <<>> /\ result # <<>>)) =>
          /\ stats.end_time # <<>>
          /\ queue = <<>>
          /\ \A t \in Workers : w[t].pc = "idle"
          /\ \A i \in 1..NObjects :
                futures[i] \in {"true", "true_unsaved", "skipped", "false", "exc_counted"}

\* C17: the listed objects are submitted once, all of them, each one once
\* and after the listing has ended; each is in the queue, on one thread or
\* resolved, never twice; end_time is set and run_transfer returns only
\* when every submitted object has resolved as success or failure; and
\* with every thread scheduled and every storage call returning or
\* raising, the program eventually exits.
C17_SubmitOnceWaitAllTerminate ==
    /\ []C17_SubmittedOnce
    /\ <>(mpc = "exit")

\* A run of two objects, one copied and one failed, has set end_time and
\* exited.
C17_RunOfTwoEnded ==
    /\ NObjects = 2
    /\ stats.end_time # <<>>
    /\ mpc = "exit"
    /\ \E i, j \in 1..NObjects : futures[i] = "true" /\ futures[j] = "false"

\* a <= b for byte counts a = m * 1024^e and b.
AtMost(a, b) ==
    IF a.e <= b.e
    THEN LET k == b.e - a.e
         IN  IF k <= 3 THEN (a.m + Pow1024(k) - 1) \div Pow1024(k) <= b.m
             ELSE a.m = 0 \/ b.m >= 1
    ELSE LET k == a.e - b.e
         IN  IF k <= 3 THEN a.m <= b.m \div Pow1024(k)
             ELSE a.m = 0

\* Position of a unit in B, KB, MB, GB, TB.
UnitRank(unit) == CHOOSE r \in 1..5 : <<"B", "KB", "MB", "GB", "TB">>[r] = unit

\* C18: format_size renders 0 as "0B", renders 1536 in KB (as 1.50 KB), and
\* a byte count at least as large as another is never rendered in a smaller
\* unit of B, KB, MB, GB, TB.
C18_FormatSize ==
    call.fn = "format_size" =>
        LET size_bytes == call.args[1]
            text == call.result[1]
        IN  /\ (size_bytes.m = 0) =>
                  text = [whole |-> 0, frac |-> <<>>, sep |-> "", unit |-> "B"]
            /\ (size_bytes = [m |-> 1536, e |-> 0]) =>
                  text = [whole |-> 1, frac |-> <<50>>, sep |-> " ", unit |-> "KB"]
            /\ \A larger \in ByteCounts :
                  AtMost(size_bytes, larger) =>
                      UnitRank(text.unit) <= UnitRank(format_size(larger).unit)

\* 1536 bytes have been rendered, one unit above bytes.
C18_Rendered1536 ==
    /\ call.fn = "format_size"
    /\ call.args = <<[m |-> 1536, e |-> 0]>>
    /\ call.result[1].unit = "KB"

\* The bytes of object i that its upload has received as parts.
Received(i) == UploadedBytes(uploads[i].parts)

\* What a step may do to the multipart upload of object i.
C19_UploadStep(i) ==
    LET before == uploads[i]
        after == uploads'[i]
    IN  \/ after = before
        \* initiate: first, before any part
        \/ /\ before = NoUpload
           /\ after = [before EXCEPT !.state = "open"]
        \* one more part, the next number, on the open upload
        \/ /\ before.state = "open" /\ before.aborts = 0
           /\ after.state = "open" /\ after.aborts = 0
           /\ Len(after.parts) = Len(before.parts) + 1
           /\ SubSeq(after.parts, 1, Len(before.parts)) = before.parts
           /\ after.parts[Len(after.parts)].PartNumber = Len(before.parts) + 1
           /\ Received(i) < source[i]
        \* complete: after every chunk was received
        \/ /\ before.state = "open" /\ before.aborts = 0
           /\ after = [before EXCEPT !.state = "completed", !.completed = after.completed]
           /\ Received(i) = source[i]
        \* abort: on an upload that was not completed
        \/ /\ before.state = "open" /\ before.aborts = 0
           /\ after.aborts = 1
           /\ after.state \in {"open", "aborted"}
           /\ after.parts = before.parts /\ after.completed = before.completed

\* complete_multipart_upload is about to be called only with every chunk
\* uploaded, and no abort was called on a completed upload.
C19_CompleteAfterAllParts ==
    /\ \A t \in Workers :
          w[t].pc = "complete_multipart_upload" =>
              /\ Received(w[t].obj) = source[w[t].obj]
              /\ uploads[w[t].obj].state = "open"
              /\ Len(w[t].parts) = Len(uploads[w[t].obj].parts)
    /\ \A i \in 1..NObjects :
          uploads[i].state = "completed" => uploads[i].aborts = 0

\* C19: a multipart copy initiates the upload first, then uploads the parts
\* one after the other (part k + 1 only onto parts 1..k received), then
\* completes; complete is called only when every chunk was uploaded, and
\* abort is never called on an upload whose completion succeeded.
C19_MultipartOrder ==
    /\ []C19_CompleteAfterAllParts
    /\ [][\A i \in 1..NObjects :
              (DOMAIN uploads' = DOMAIN uploads) => C19_UploadStep(i)]_vars

\* One upload has been completed from three parts, another aborted after a
\* part was received.
C19_CompletedAndAborted ==
    \E i, j \in 1..NObjects :
        /\ uploads[i].state = "completed" /\ Len(uploads[i].parts) = 3
        /\ uploads[j].state = "aborted" /\ Len(uploads[j].parts) >= 1

\* abort_multipart_upload was called for object i and failed: the upload
\* is still open at the destination.
AbortFailed(i) == uploads[i].aborts > 0 /\ uploads[i].state = "open"

\* C20: a failed abort of a failed multipart upload is swallowed.  The
\* abort is called at most once per upload; the exception never leaves the
\* copy (the future never holds an exception, the thread goes on to count
\* the object as failed); transfer_file returns False, and a run of that one
\* object ends with failed_files = 1, nothing transferred and result False.
C20_AbortFailureSwallowed ==
    /\ \A i \in 1..NObjects : uploads[i].aborts <= 1
    /\ \A i \in 1..NObjects :
          AbortFailed(i) =>
              /\ futures[i] \in {"running", "false"}
              /\ futures[i] = "running" =>
                    \E t \in Workers :
                        /\ w[t].obj = i
                        /\ w[t].pc \in {"failed_load", "failed_store"}
              /\ ~DestinationMatch(ObjKey(i), objects[i])
    /\ (Finished /\ NObjects = 1 /\ AbortFailed(1)) =>
          /\ stats.failed_files = 1
          /\ stats.transferred_files = 0
          /\ ~Recorded(1) /\ ~RecordedInFile(1)
          /\ result # <<>> => result[1] = FALSE

\* The run is over, and the abort of an upload that had received a part
\* failed; the object is reported failed.
C20_FailedAbortReportedFailed ==
    /\ Finished
    /\ \E i \in 1..NObjects :
          /\ AbortFailed(i)
          /\ Len(uploads[i].parts) >= 1
          /\ futures[i] = "false"
          /\ stats.failed_files >= 1

\* How far transfer_file has come at a position: the skip check, the copy
\* (the multipart copy call by call), then the counters and the ledger.
Position(pc) ==
    CASE pc = "should_skip" -> 1
      [] pc = "decide" -> 2
      [] pc \in {"small_file", "create_multipart_upload"} -> 3
      [] pc = "get_object" -> 4
      [] pc = "upload_part" -> 5
      [] pc = "complete_multipart_upload" -> 6
      [] pc = "abort_multipart_upload" -> 7
      [] pc \in {"files_load", "failed_load"} -> 8
      [] pc \in {"files_store", "failed_store"} -> 9
      [] pc = "size_load" -> 10
      [] pc = "size_store" -> 11
      [] pc = "save_progress" -> 12
      [] pc = "open" -> 13
      [] pc = "dump" -> 14
      [] pc = "close" -> 15
      [] OTHER -> 0

\* A step never takes a busy thread back: it stays on its object and moves
\* on in transfer_file (in the part loop: to the next part) or returns.
C21_ThreadMovesOn(t) ==
    (w[t].pc # "idle" /\ w'[t].pc # "idle") =>
        /\ w'[t].obj = w[t].obj
        /\ \/ w'[t].pc = w[t].pc /\ w'[t].part_number = w[t].part_number
           \/ Position(w'[t].pc) > Position(w[t].pc)
           \/ /\ w[t].pc = "upload_part" /\ w'[t].pc = "upload_part"
              /\ w'[t].part_number > w[t].part_number

\* A step never hands an object to the pool again: it is queued at most at
\* the submission, taken by a thread only from the queue, and once its
\* future is resolved it stays resolved, a failed one failed.
C21_ObjectHandledOnce(i) ==
    /\ TimesQueued(i)' <= (IF futures[i] = "queued" THEN 1 ELSE 0)
    /\ \A t \in Workers :
          (w'[t].pc # "idle" /\ w'[t].obj = i /\ (w[t].pc = "idle" \/ w[t].obj # i))
              => futures[i] = "queued" /\ w'[t].pc = "should_skip"
    /\ Resolved(i) => Resolved(i)'
    /\ futures[i] \in {"false", "exc", "exc_counted"}
          => futures'[i] \in {"false", "exc", "exc_counted"}

\* C21: no automatic retries.  Within one run an object is taken by a
\* thread once, the thread goes through transfer_file without ever going
\* back to the copy, and an object whose copy failed stays failed.
C21_NoRetries ==
    [][/\ \A t \in Workers : C21_ThreadMovesOn(t)
       /\ (objects # <<>> /\ objects' = objects) =>
             \A i \in 1..NObjects : C21_ObjectHandledOnce(i)]_vars

\* The run is over; one object failed in the simple copy after get_object
\* was called, the other one was transferred.
C21_FailedOnceAndStayedFailed ==
    /\ Finished /\ NObjects = 2
    /\ \E i, j \in 1..NObjects :
          /\ futures[i] = "false" /\ objects[i] <= MULTIPART_THRESHOLD
          /\ ~DestinationMatch(ObjKey(i), objects[i])
          /\ futures[j] = "true"
    /\ "get_object" \in issued

\* Object i was transferred but the ledger has no record of it: the
\* destination holds it with its size, the mapping does not.
Forgotten(i) ==
    /\ ~LedgerMatch(ObjKey(i), objects[i])
    /\ DestinationMatch(ObjKey(i), objects[i])

\* The run resumes an earlier one on the unchanged source and destination.
ResumesUnchanged == resumed /\ changed = {}

\* The decision on a forgotten object in the resumed run: head_object is
\* called, its answer decides.
C22_ForgottenDecision ==
    \A t \in Workers :
        (Decides(t) /\ ResumesUnchanged /\ Forgotten(w[t].obj)) =>
            /\ w[t].head[1] # NotCalled
            /\ w'[t].skipped <=> w[t].head[1].status = "ok"
            /\ w'[t].pc \in {"small_file", "create_multipart_upload"}
                  <=> w[t].head[1].status = "ClientError"

\* A skipped object has no multipart upload, and a run that skipped its only
\* object has issued no copy call.
C22_SkippedCopiesNothing ==
    ResumesUnchanged =>
        /\ \A i \in 1..NObjects :
              futures[i] = "skipped" => uploads[i] = NoUpload
        /\ (NObjects = 1 /\ futures[1] = "skipped") => issued = {}

\* C22 as the code has it: in the run that resumes on the unchanged source
\* and destination, an object the destination holds and the ledger has
\* forgotten is copied again only when head_object on its destination key
\* fails with a ClientError; when head_object answers, the object is skipped
\* and none of its bytes are copied.
C22_ForgottenCopiedOnlyOnHeadError ==
    /\ []C22_SkippedCopiesNothing
    /\ [][C22_ForgottenDecision]_vars

\* C22 as stated: in the run that resumes on the unchanged source and
\* destination, an object that was transferred and is not in the loaded
\* ledger is not skipped.
C22_ForgottenIsCopiedAgain ==
    \A i \in 1..NObjects :
        (ResumesUnchanged /\ Resolved(i) /\ ObjKey(i) \notin DOMAIN loaded
            /\ DestinationMatch(ObjKey(i), objects[i]))
                => futures[i] # "skipped"

\* The first run copied its only object and could not open the progress
\* file; the resumed run has skipped the object on head_object's answer.
C22_ForgottenSkipped ==
    /\ ResumesUnchanged /\ Finished /\ NObjects = 1
    /\ ~progress_file.exists
    /\ loaded = EmptyMap
    /\ futures[1] = "skipped"
    /\ DestinationMatch(ObjKey(1), objects[1])
    /\ issued = {}

\* The elapsed time between start_time and end_time is zero.
ZeroElapsed ==
    /\ stats.start_time # <<>> /\ stats.end_time # <<>>
    /\ stats.end_time[1] - stats.start_time[1] = 0

\* C23: the average throughput of the summary is guarded against division
\* by zero.  When the elapsed time is zero, print_summary completes (the
\* summary is printed whole, nothing is raised) and run_transfer returns its
\* result.
C23_ZeroElapsedSummaryCompletes ==
    (ZeroElapsed /\ mpc \in {"returned", "exit"}) =>
        /\ summary = "printed"
        /\ result # <<>>
        /\ exit_code # <<>> => exit_code = <<IF result[1] THEN 0 ELSE 1>>

\* A text without its first character if that is a separator.
TrimOneSeparator(s) == IF s # <<>> /\ s[1] = "/" THEN Tail(s) ELSE s

\* C24: prefix stripping is textual and trims a single leading separator.
\* With a source prefix, the relative key is the key without its first
\* len(source_prefix) characters and without at most one "/" at the front
\* of what is left: of two separators after the prefix one is kept.
C24_SingleSeparatorTrimmed ==
    (call.fn = "get_destination_key" /\ Stem(call.args[1]) # <<>>) =>
        LET p == Stem(call.args[1])
            q == Stem(call.args[2])
            key == call.args[3]
            relative == TrimOneSeparator(SubSeq(key, Len(p) + 1, Len(key)))
        IN  call.result[1] = IF q = <<>> THEN relative
                             ELSE q \o <<"/">> \o relative

\* Thread t is inside should_skip_transfer: before head_object or before
\* the return.
InShouldSkip(t) == w[t].pc \in {"should_skip", "decide"}

\* How the call of thread t ends in this step: it returns True, returns
\* False or raises.
SkipResult(t) ==
    IF w'[t].pc = "idle" THEN "raise"
    ELSE IF w'[t].skipped THEN "skip"
    ELSE "copy"

\* What head_object answers when it reports the destination as it is: the
\* object's size, or the 404 of an absent object.
TruthfulHead(dest_key) ==
    IF dest_key \in DOMAIN dest
    THEN HeadResponse("ok", dest[dest_key])
    ELSE HeadResponse("ClientError", 0)

\* A step of should_skip_transfer changes neither the in-memory ledger, the
\* progress file, the statistics nor the destination.
C25_SkipCheckFrame ==
    \A t \in Workers :
        (InShouldSkip(t) /\ w'[t] # w[t]) =>
            /\ completed_transfers' = completed_transfers
            /\ progress_file' = progress_file
            /\ stats' = stats
            /\ dest' = dest
            /\ uploads' = uploads

\* The result is decided by the ledger record and head_object's answer.
C25_SkipResultByAnswer ==
    \A t \in Workers :
        Decides(t) =>
            LET matched == LedgerMatch(ObjKey(w[t].obj), objects[w[t].obj])
                head == w[t].head[1]
            IN  /\ matched => (head = NotCalled /\ SkipResult(t) = "skip")
                /\ ~matched =>
                      /\ head # NotCalled
                      /\ SkipResult(t) = "skip" <=> HeadMatch(t)
                      /\ SkipResult(t) = "raise" <=> head.status = "Other"

\* C25 as the code has it: a call of should_skip_transfer changes neither
\* the in-memory ledger, the progress file, the statistics nor the
\* destination, and its result depends only on the key, the size, the
\* ledger and what head_object answers for the destination key: a
\* ClientError answer gives False whatever the destination holds.
C25_SkipCheckIsPure ==
    [][C25_SkipCheckFrame /\ C25_SkipResultByAnswer]_vars

\* C25 as stated: the result of a call that returns depends only on the
\* key, the size, the ledger and the destination's state: it is the result
\* for a head_object that reports the destination as it is.
C25_SkipResultByDestination ==
    [][\A t \in Workers :
          (Decides(t) /\ w[t].head[1].status \in {"ok", "ClientError"}) =>
              SkipResult(t) =
                  should_skip_transfer(ObjKey(w[t].obj), objects[w[t].obj],
                                       TruthfulHead(get_destination_key(ObjKey(w[t].obj))))]_vars

\* An object without a ledger record is being skipped on head_object's
\* answer: the destination holds it with its size.
C25_SkippedByDestination ==
    \E t \in Workers :
        /\ w[t].skipped
        /\ ObjKey(w[t].obj) \notin DOMAIN completed_transfers
        /\ DestinationMatch(ObjKey(w[t].obj), objects[w[t].obj])

\* Sum of the sizes of the objects whose transfer_file returned True.
TransferredBytes ==
    LET RECURSIVE S(_)
        S(n) == IF n = 0 THEN 0
                ELSE (IF futures[n] \in ReturnedTrue THEN objects[n] ELSE 0) + S(n - 1)
    IN  S(NObjects)

\* C26: under every interleaving of the worker threads, once all workers
\* have drained every listed object is counted exactly once, in
\* transferred_files or in failed_files: the two add up to total_files,
\* each is the number of its objects, and transferred_size is the sum of
\* the sizes of the objects counted as transferred.
C26_CountersExact ==
    Finished =>
        /\ stats.transferred_files + stats.failed_files = stats.total_files
        /\ stats.transferred_files =
              Cardinality({i \in 1..NObjects : futures[i] \in ReturnedTrue})
        /\ stats.transferred_size = TransferredBytes

\* C27: within one run distinct source keys listed under the source prefix
\* map to distinct destination keys (so that no two workers write the same
\* destination key): no other key of the listing has the destination key
\* get_destination_key returned for this one.
C27_DistinctDestinationKeys ==
    call.fn = "get_destination_key" =>
        LET self_source_prefix == rstrip(call.args[1], "/")
            self_destination_prefix == rstrip(call.args[2], "/")
        IN  \A other \in KeysUnder(self_source_prefix) \ {call.args[3]} :
                destination_key(self_source_prefix, self_destination_prefix, other)
                    # call.result[1]

\* Thread t is processing an object classified skip and takes this step,
\* the one that classifies it included.
SkipStep(t) ==
    /\ w'[t] # w[t]
    /\ \/ w[t].skipped
       \/ w[t].pc = "decide" /\ w'[t].skipped

\* A step of the processing of a skipped object changes nothing but the
\* two counters (and the thread's own position and future).
C28_SkipStepFrame ==
    \A t \in Workers :
        SkipStep(t) =>
            /\ completed_transfers' = completed_transfers
            /\ progress_file' = progress_file
            /\ dest' = dest
            /\ uploads' = uploads
            /\ issued' = issued
            /\ [stats' EXCEPT !.transferred_files = stats.transferred_files,
                              !.transferred_size = stats.transferred_size] = stats

\* A skipped object never reaches save_progress, and neither the mapping
\* nor the file has a record of it that this run wrote.
C28_SkipLeavesNoRecord ==
    /\ \A t \in Workers :
          w[t].skipped =>
              w[t].pc \in {"files_load", "files_store", "size_load", "size_store"}
    /\ \A i \in 1..NObjects :
          (futures[i] = "skipped" \/ \E t \in Workers : w[t].obj = i /\ w[t].skipped)
              => ~Recorded(i) /\ ~RecordedInFile(i)

\* C28: processing an object classified skip leaves the ledger unchanged.
\* No record is added or rewritten and the progress file is not written,
\* also when the skip was decided by head_object alone and the key has no
\* record; the only state it changes are the transferred_files and
\* transferred_size counters.
C28_SkipLeavesLedger ==
    /\ []C28_SkipLeavesNoRecord
    /\ [][C28_SkipStepFrame]_vars

\* The run is over; an object without any ledger record was skipped on
\* head_object's answer and counted, while the other object was copied and
\* recorded in the file.
C28_SkippedUnrecorded ==
    /\ Finished /\ NObjects = 2
    /\ \E i, j \in 1..NObjects :
          /\ futures[i] = "skipped"
          /\ ObjKey(i) \notin DOMAIN loaded
          /\ ObjKey(i) \notin DOMAIN completed_transfers
          /\ futures[j] = "true" /\ Persisted(j)
          /\ progress_file.val # <<>>
          /\ ObjKey(i) \notin DOMAIN progress_file.val[1]
    /\ stats.transferred_files >= 1

====
